---- MODULE Spec2Model ----
(***************************************************************************)
(* Model of clip_interrogator/data/scripts_remove_flavors_by_artists.py:   *)
(* the text normaliser, the line loader, the match engine, the file writer *)
(* and the driver main(), over a small file system.                        *)
(*                                                                         *)
(* A Python str is a sequence of character tokens.  The tokens and the     *)
(* code points they stand for:                                             *)
(*   "a" "b" "d" "n" "o" "y"   ASCII lowercase letters                     *)
(*   "A" "B"                   ASCII uppercase letters                     *)
(*   "1"                       ASCII digit                                 *)
(*   " "                       U+0020 space                                *)
(*   "TAB"                     U+0009                                      *)
(*   "LF"                      U+000A                                      *)
(*   "CR"                      U+000D                                      *)
(*   "-"                       U+002D hyphen-minus (punctuation)           *)
(*   "A_ACUTE"                 U+00C1, NFKD = "A" U+0301                   *)
(*   "COMB"                    U+0301 combining acute accent (category Mn) *)
(*   "SHARP_S"                 U+00DF, a non-ASCII letter, NFKD unchanged  *)
(*   "REPL"                    U+FFFD, what invalid UTF-8 is decoded to    *)
(* The text of a file is such a sequence too, encoded in UTF-8; it may end *)
(* in "CUT", the first bytes of a character of several bytes.              *)
(***************************************************************************)
EXTENDS Integers, Sequences, FiniteSets, TLC

VARIABLES fs, pc, args, artists_lines, flavors_lines, removals_idx,
          removals_lines, backup, out, now, runs, fs0, reported, s_in, s_out, s_again,
          faults

vars == <<fs, pc, args, artists_lines, flavors_lines, removals_idx,
          removals_lines, backup, out, now, runs, fs0, reported, s_in, s_out, s_again,
          faults>>

\* ------------------------------------------------------------------ bounds
MaxRuns == 2
MaxStamp == 1
MaxStr == 4
MaxFaults == 1

\* -------------------------------------------------------------- characters
Lower == {"a", "b", "d", "n", "o", "y"}
Upper == {"A", "B"}
Digit == {"1"}
\* the characters Python's str.strip() and the regex class \s treat as space
Whitespace == {" ", "TAB", "LF", "CR"}

\* general category starts with 'M' (unicodedata.category)
IsMark(ch) == ch = "COMB"

\* unicodedata.normalize("NFKD", ch) of one character
NFKD_char(ch) == IF ch = "A_ACUTE" THEN <<"A", "COMB">> ELSE <<ch>>

\* str.casefold() of one character
casefold_char(ch) ==
  CASE ch = "A" -> <<"a">>
    [] ch = "B" -> <<"b">>
    [] ch = "A_ACUTE" -> <<"a_acute">>
    [] ch = "SHARP_S" -> <<"s", "s">>
    [] OTHER -> <<ch>>

\* the character class of RE_NON_ALNUM: [^0-9a-zA-Z\s]
RE_NON_ALNUM(ch) == ch \notin (Lower \cup Upper \cup Digit \cup Whitespace)

\* --------------------------------------------------------------- str, list
\* Python str values and lists of them.  The recursive definitions are
\* functions, so that an argument is a value before the body is entered.
Str == Seq(STRING)
StrList == Seq(Str)

Last(s) == s[Len(s)]
Front(s) == SubSeq(s, 1, Len(s) - 1)
Range(s) == {s[i] : i \in 1..Len(s)}

IsSpace(ch) == ch \in Whitespace

lstrip[s \in Str] ==
  IF s # <<>> /\ IsSpace(Head(s)) THEN lstrip[Tail(s)] ELSE s

rstrip[s \in Str] ==
  IF s # <<>> /\ IsSpace(Last(s)) THEN rstrip[Front(s)] ELSE s

\* str.strip()
strip(s) == rstrip[lstrip[s]]

\* sub in s  (Python's substring test)
IsSubstring(sub, s) ==
  \E i \in 0..(Len(s) - Len(sub)) : SubSeq(s, i + 1, i + Len(sub)) = sub

\* s.replace(' ', '')
RemoveSpaces(s) == SelectSeq(s, LAMBDA ch : ch # " ")

\* s.endswith("\n")
EndsWithLF(s) == s # <<>> /\ Last(s) = "LF"

\* ------------------------------------------------------------ normalize_text
\* line 47: unicodedata.normalize("NFKD", s)
nfkd[s \in Str] ==
  IF s = <<>> THEN <<>> ELSE NFKD_char(Head(s)) \o nfkd[Tail(s)]

\* line 49: the characters that are not combining marks
strip_marks[s \in Str] ==
  IF s = <<>> THEN <<>>
  ELSE (IF IsMark(Head(s)) THEN <<>> ELSE <<Head(s)>>) \o strip_marks[Tail(s)]

\* line 51: RE_NON_ALNUM.sub(' ', s), each maximal run replaced by one space;
\* inRun says that the character before s was part of a run
sub_non_alnum_from[s \in Str, inRun \in BOOLEAN] ==
  IF s = <<>> THEN <<>>
  ELSE IF RE_NON_ALNUM(Head(s))
       THEN (IF inRun THEN <<>> ELSE <<" ">>) \o sub_non_alnum_from[Tail(s), TRUE]
       ELSE <<Head(s)>> \o sub_non_alnum_from[Tail(s), FALSE]

sub_non_alnum(s) == sub_non_alnum_from[s, FALSE]

\* line 53: re.sub(r'\s+', ' ', s)
collapse_ws_from[s \in Str, inRun \in BOOLEAN] ==
  IF s = <<>> THEN <<>>
  ELSE IF IsSpace(Head(s))
       THEN (IF inRun THEN <<>> ELSE <<" ">>) \o collapse_ws_from[Tail(s), TRUE]
       ELSE <<Head(s)>> \o collapse_ws_from[Tail(s), FALSE]

collapse_ws(s) == collapse_ws_from[s, FALSE]

\* line 53: str.casefold()
casefold[s \in Str] ==
  IF s = <<>> THEN <<>> ELSE casefold_char(Head(s)) \o casefold[Tail(s)]

\* a faulty variant: leading and trailing space trimmed before the
\* punctuation is replaced, instead of after
normalize_text_strip_first(s) ==
  casefold[collapse_ws(sub_non_alnum(strip(strip_marks[nfkd[s]])))]

normalize_text(s) ==
  casefold[strip(collapse_ws(sub_non_alnum(strip_marks[nfkd[s]])))]

\* ------------------------------------------------------- load_nonempty_lines
\* a file: whether the path exists, and its text
NoFile == [exists |-> FALSE, text |-> <<>>]
File(t) == [exists |-> TRUE, text |-> t]

\* the universal-newlines translation of Path.read_text: CR LF and CR -> LF
translate_newlines[s \in Str] ==
  IF s = <<>> THEN <<>>
  ELSE IF Head(s) = "CR"
       THEN <<"LF">> \o translate_newlines[
              IF Len(s) > 1 /\ s[2] = "LF" THEN Tail(Tail(s)) ELSE Tail(s)]
       ELSE <<Head(s)>> \o translate_newlines[Tail(s)]

\* the characters that take more than one byte in UTF-8
MultiByte == {"A_ACUTE", "COMB", "SHARP_S", "REPL"}

\* bytes.decode('utf-8', errors='replace'): an incomplete character -> U+FFFD
decode[t \in Str] == [i \in 1..Len(t) |-> IF t[i] = "CUT" THEN "REPL" ELSE t[i]]

read_text(f) == translate_newlines[decode[f.text]]

\* the text cut at each LF, no empty last line; cur is the line being read
SplitLF[s \in Str, cur \in Str] ==
  IF s = <<>> THEN (IF cur = <<>> THEN <<>> ELSE <<cur>>)
  ELSE IF Head(s) = "LF" THEN <<cur>> \o SplitLF[Tail(s), <<>>]
       ELSE SplitLF[Tail(s), Append(cur, Head(s))]

\* str.splitlines(): CR LF, CR and LF are the line boundaries
splitlines(s) == SplitLF[translate_newlines[s], <<>>]

\* line.rstrip('\n')
rstrip_LF[s \in Str] == IF EndsWithLF(s) THEN rstrip_LF[Front(s)] ELSE s

lines_of[lines \in StrList] == [i \in 1..Len(lines) |-> rstrip_LF[lines[i]]]

load_nonempty_lines(f) == lines_of[splitlines(read_text(f))]

\* ------------------------------------------------------------ find_removals
MinArtistLen == 3
AND == <<"a", "n", "d">>

\* lines 69-74 for one artist line: its normalized string, if it has one
normalized_artist[a \in Str] ==
  IF strip(a) = <<>> THEN <<>>
  ELSE IF normalize_text(strip(a)) = <<>> THEN <<>>
       ELSE <<normalize_text(strip(a))>>

\* lines 67-74: the normalized artist strings, blank and empty ones skipped
normalized_artists[lines \in StrList] ==
  IF lines = <<>> THEN <<>>
  ELSE normalized_artist[Head(lines)] \o normalized_artists[Tail(lines)]

\* line 89: the condition under which artist string na flags the line nf
artist_matches(na, nf) ==
  /\ na # <<>>
  /\ IsSubstring(na, nf)
  /\ Len(RemoveSpaces(na)) > MinArtistLen
  /\ IsSubstring(AND, nf)

\* lines 86-92 for the normalized line nf: the artists that match, in order
matching[nf \in Str, nas \in StrList] ==
  SelectSeq(nas, LAMBDA na : artist_matches(na, nf))

\* lines 80-92 for one flavor line
matching_artists(flavor, nas) ==
  IF strip(flavor) = <<>> THEN <<>>
  ELSE matching[normalize_text(strip(flavor)), nas]

\* lines 93-95: what a flagged line adds to the result
flag[idx \in Nat, flavor \in Str, m \in StrList] ==
  IF m = <<>> THEN [idx |-> <<>>, lines |-> <<>>, printed |-> <<>>]
  ELSE [idx |-> <<idx>>, lines |-> <<flavor>>,
        printed |-> <<[k |-> "match", na |-> Head(m),
                       nf |-> normalize_text(strip(flavor))]>>]

concat(r1, r2) ==
  [idx |-> r1.idx \o r2.idx, lines |-> r1.lines \o r2.lines,
   printed |-> r1.printed \o r2.printed]

\* lines 79-95: the loop over the flavor lines, from index idx on
find_removals_from[flavors \in StrList, nas \in StrList, idx \in Nat] ==
  IF flavors = <<>> THEN [idx |-> <<>>, lines |-> <<>>, printed |-> <<>>]
  ELSE concat(flag[idx, Head(flavors), matching_artists(Head(flavors), nas)],
              find_removals_from[Tail(flavors), nas, idx + 1])

\* the indexes (from 0) of the flagged lines, their contents, and what the
\* matching printed
find_removals(flavors, artists) ==
  find_removals_from[flavors, normalized_artists[artists], 0]

\* ----------------------------------------------------------- write_filtered
\* "\n".join(lines)
Join[lines \in StrList] ==
  IF lines = <<>> THEN <<>>
  ELSE IF Len(lines) = 1 THEN lines[1]
       ELSE Head(lines) \o <<"LF">> \o Join[Tail(lines)]

\* the "\n" added after the joined lines
last_newline[lines \in StrList] ==
  IF lines # <<>> /\ ~EndsWithLF(Last(lines)) THEN <<"LF">> ELSE <<>>

\* "\n".join(lines) + ("\n" if lines and not lines[-1].endswith("\n") else "")
serialize(lines) == Join[lines] \o last_newline[lines]

\* the lines at the positions (from 1) in keep, in order
select[lines \in StrList, keep \in SUBSET Nat] ==
  LET F[i \in 0..Len(lines)] ==
        IF i = 0 THEN <<>>
        ELSE IF i \in keep THEN Append(F[i - 1], lines[i]) ELSE F[i - 1]
  IN  F[Len(lines)]

\* a faulty variant: the removal indexes taken as counted from 1
kept_lines_from_one(lines, idx) ==
  select[lines, {i \in 1..Len(lines) : i \notin Range(idx)}]

\* line 108: the lines whose index (from 0) is not a removal index
kept_lines(lines, idx) ==
  select[lines, {i \in 1..Len(lines) : (i - 1) \notin Range(idx)}]

\* line 102: flavors_path with ".bak.<stamp>" appended to its suffix
ArtistsPath == <<"artists">>
FlavorsPath == <<"flavors">>
backup_path(stamp) == <<"flavors", "bak", stamp>>
None == <<>>

\* ------------------------------------------------------------------ inputs
\* the artists files
ArtistTexts ==
  { <<"A", "b", " ", "B", "o", "LF">>,                      \* "Ab Bo\n"
    <<"B", "o", "b", "LF", "-", "LF", "LF",
      " ", "a", "n", "d", "y", "TAB", "CR", "LF", "A", "b", " ", "B", "o">> }
                                       \* "Bob\n-\n\n andy\t\r\nAb Bo"

\* flavors files of one line or none
ShortTexts ==
  { <<>>,                                                   \* ""
    <<"a", "n", "d", "y">>,                                 \* "andy"
    <<"b", "o", "b", " ", "a", "n", "d", "LF">> }           \* "bob and\n"

\* flavors files of several lines
LongTexts ==
  { <<"A_ACUTE", "b", "-", "B", "o", " ", "a", "n", "d", "LF",
      "a", "n", "d", "y", "LF">>,               \* "\u00c1b-Bo and\nandy\n"
    <<"a", "n", "d", "y", "LF", "b", "o", "b", " ", "a", "n", "d", "LF">>,
                                                \* "andy\nbob and\n"
    <<"a", "n", "d", "y", "CR", "LF", "a", "b", " ", "b", "o", "CR", "LF">>,
                                                \* "andy\r\nab bo\r\n"
    <<"a", "n", "d", "y", "LF", " ", "LF">>,    \* "andy\n \n"
    <<"A_ACUTE", "b", "-", "B", "o", " ", "a", "n", "d", "LF", "LF",
      "a", "n", "d", "y">> }                    \* "\u00c1b-Bo and\n\nandy"

FlavorTexts == ShortTexts \cup LongTexts

RECURSIVE SeqsUpTo(_, _)
SeqsUpTo(S, n) ==
  IF n = 0 THEN { <<>> }
  ELSE LET shorter == SeqsUpTo(S, n - 1)
       IN  shorter \cup { Append(t, x) : t \in shorter, x \in S }

BackupPaths == { backup_path(t) : t \in 0..MaxStamp }
Paths == {ArtistsPath, FlavorsPath} \cup BackupPaths

Args == [inplace : BOOLEAN, no_backup : BOOLEAN]

\* the characters the arguments of normalize_text are drawn from
PureChars ==
  {"a", "A", "1", " ", "TAB", "-", "A_ACUTE", "COMB", "SHARP_S", "REPL"}

\* ---------------------------------------------------------------- the state
Terminal == {"Stop", "Done", "Error"}

\* the state before the tool is first started, the flavors file, if there
\* is one, holding one of texts
InitWith(texts) ==
  /\ \E a \in {NoFile} \cup { File(t) : t \in ArtistTexts },
        f \in {NoFile} \cup { File(t) : t \in texts } :
       fs = [p \in Paths |->
               IF p = ArtistsPath THEN a
               ELSE IF p = FlavorsPath THEN f ELSE NoFile]
  /\ pc = "Idle"
  /\ args = [inplace |-> FALSE, no_backup |-> FALSE]
  /\ artists_lines = <<>>
  /\ flavors_lines = <<>>
  /\ removals_idx = <<>>
  /\ removals_lines = <<>>
  /\ backup = None
  /\ out = <<>>
  /\ now = 0
  /\ runs = 0
  /\ fs0 = fs
  /\ reported = <<>>
  /\ s_in = <<>>
  /\ s_out = <<>>
  /\ s_again = <<>>
  /\ faults = 0

Init == InitWith(FlavorTexts)

\* the tool is started from the command line with the parsed arguments a
Invoke ==
  /\ pc \in Terminal \cup {"Idle"}
  /\ runs < MaxRuns
  /\ \E a \in Args : args' = a
  /\ pc' = "Validate"
  /\ runs' = runs + 1
  /\ fs0' = fs
  /\ artists_lines' = <<>>
  /\ flavors_lines' = <<>>
  /\ removals_idx' = <<>>
  /\ removals_lines' = <<>>
  /\ backup' = None
  /\ out' = <<>>
  /\ UNCHANGED <<fs, now, reported, s_in, s_out, s_again, faults>>

\* a faulty variant: only the artists path is checked
missing_input_artists_only(files) ==
  IF ~files[ArtistsPath].exists THEN "Artists file not found" ELSE "ok"

\* lines 121-124: which SystemExit message, if any, the path checks raise
missing_input(files) ==
  IF ~files[ArtistsPath].exists THEN "Artists file not found"
  ELSE IF ~files[FlavorsPath].exists THEN "Flavors file not found"
  ELSE "ok"

Validate ==
  /\ pc = "Validate"
  /\ LET m == missing_input(fs)
     IN  IF m = "ok"
         THEN pc' = "Load" /\ out' = out
         ELSE pc' = "Error" /\ out' = Append(out, [k |-> "SystemExit", msg |-> m])
  /\ UNCHANGED <<fs, args, artists_lines, flavors_lines, removals_idx,
                 removals_lines, backup, now, runs, fs0, reported, s_in, s_out, s_again, faults>>

\* lines 126-127; read_text of a path that does not exist raises
Load ==
  /\ pc = "Load"
  /\ IF fs[ArtistsPath].exists /\ fs[FlavorsPath].exists
     THEN /\ artists_lines' = load_nonempty_lines(fs[ArtistsPath])
          /\ flavors_lines' = load_nonempty_lines(fs[FlavorsPath])
          /\ pc' = "Match"
          /\ out' = out
     ELSE /\ UNCHANGED <<artists_lines, flavors_lines>>
          /\ pc' = "Error"
          /\ out' = Append(out, [k |-> "exception", msg |-> "FileNotFoundError"])
  /\ UNCHANGED <<fs, args, removals_idx, removals_lines, backup, now, runs,
                 fs0, reported, s_in, s_out, s_again, faults>>

\* line 129
Match ==
  /\ pc = "Match"
  /\ removals_idx' = find_removals(flavors_lines, artists_lines).idx
  /\ removals_lines' = find_removals(flavors_lines, artists_lines).lines
  /\ out' = out \o find_removals(flavors_lines, artists_lines).printed
  /\ pc' = "Report"
  /\ UNCHANGED <<fs, args, artists_lines, flavors_lines, backup, now, runs,
                 fs0, reported, s_in, s_out, s_again, faults>>

PreviewMax == 50

\* lines 131-137: the summary and the preview of the matched lines
summary(f_lines, r_idx, r_lines) ==
  <<[k |-> "summary", total |-> Len(f_lines), matched |-> Len(r_idx),
     kept |-> Len(f_lines) - Len(r_idx)]>>
  \o (IF r_lines # <<>>
      THEN <<[k |-> "examples",
              lines |-> SubSeq(r_lines, 1,
                          IF Len(r_lines) < PreviewMax THEN Len(r_lines)
                          ELSE PreviewMax)]>>
      ELSE <<>>)

\* a faulty variant: the run is taken for a dry run when --no-backup is unset
dry_run_by_no_backup(a) == ~a.no_backup

\* line 139: not args.inplace
dry_run(a) == ~a.inplace

Report ==
  /\ pc = "Report"
  /\ IF dry_run(args)
     THEN /\ pc' = "Stop"
          /\ out' = out \o summary(flavors_lines, removals_idx, removals_lines)
                        \o <<[k |-> "dry-run"]>>
     ELSE /\ pc' = "Write"
          /\ out' = out \o summary(flavors_lines, removals_idx, removals_lines)
  /\ UNCHANGED <<fs, args, artists_lines, flavors_lines, removals_idx,
                 removals_lines, backup, now, runs, fs0, reported, s_in, s_out, s_again, faults>>

\* what a write of text that stops early leaves in the file: the characters
\* before some position, and the first bytes of the next one if it has
\* several
partial_texts(text) ==
  { SubSeq(text, 1, k) : k \in 0..(Len(text) - 1) }
    \cup { Append(SubSeq(text, 1, k), "CUT") :
             k \in {j \in 0..(Len(text) - 1) : text[j + 1] \in MultiByte} }

\* Path.write_text opens the file for writing, which creates or truncates it,
\* then writes text: a failed write leaves the file as it was (the open
\* failed), empty, or with the first part of text (the write failed)
failed_write(files, p, text) ==
  { files, [files EXCEPT ![p] = File(<<>>)] }
    \cup { [files EXCEPT ![p] = File(t)] : t \in partial_texts(text) }

\* a faulty variant: a failed backup write is swallowed and the run goes on
after_backup_swallowed(ok) == "Overwrite"

\* line 103: an exception of backup_path.write_text leaves write_filtered
after_backup(ok) == IF ok THEN "Overwrite" ELSE "Error"

\* lines 100-105, create_backup = not args.no_backup (line 145); utcnow() is
\* read to the second and never goes back; faults counts the writes that
\* failed, at most MaxFaults of them
Write ==
  /\ pc = "Write"
  /\ IF ~args.no_backup
     THEN \E stamp \in now..MaxStamp, ok \in BOOLEAN :
            /\ now' = stamp
            /\ pc' = after_backup(ok)
            /\ IF ok
               THEN /\ fs' = [fs EXCEPT ![backup_path(stamp)] =
                                 File(serialize(flavors_lines))]
                    /\ backup' = backup_path(stamp)
                    /\ out' = out
                    /\ faults' = faults
               ELSE /\ faults < MaxFaults
                    /\ faults' = faults + 1
                    /\ fs' \in failed_write(fs, backup_path(stamp),
                                           serialize(flavors_lines))
                    /\ backup' = None
                    /\ out' = Append(out, [k |-> "exception", msg |-> "OSError"])
     ELSE /\ pc' = "Overwrite"
          /\ backup' = None
          /\ UNCHANGED <<fs, now, out, faults>>
  /\ UNCHANGED <<args, artists_lines, flavors_lines, removals_idx,
                 removals_lines, runs, fs0, reported, s_in, s_out, s_again>>

\* lines 108-109
Overwrite ==
  /\ pc = "Overwrite"
  /\ \E ok \in BOOLEAN :
       IF ok
       THEN /\ fs' = [fs EXCEPT ![FlavorsPath] =
                         File(serialize(kept_lines(flavors_lines, removals_idx)))]
            /\ pc' = "ReportWrite"
            /\ out' = out
            /\ faults' = faults
       ELSE /\ faults < MaxFaults
            /\ faults' = faults + 1
            /\ fs' \in failed_write(fs, FlavorsPath,
                     serialize(kept_lines(flavors_lines, removals_idx)))
            /\ pc' = "Error"
            /\ out' = Append(out, [k |-> "exception", msg |-> "OSError"])
  /\ UNCHANGED <<args, artists_lines, flavors_lines, removals_idx,
                 removals_lines, backup, now, runs, fs0, reported, s_in, s_out, s_again>>

\* lines 146-148; reported holds the backup paths printed so far, over all
\* the runs
ReportWrite ==
  /\ pc = "ReportWrite"
  /\ out' = out \o (IF backup # None
                    THEN <<[k |-> "backup", path |-> backup]>> ELSE <<>>)
                \o <<[k |-> "updated", path |-> FlavorsPath]>>
  /\ reported' = IF backup # None THEN Append(reported, backup) ELSE reported
  /\ pc' = "Done"
  /\ UNCHANGED <<fs, args, artists_lines, flavors_lines, removals_idx,
                 removals_lines, backup, now, runs, fs0, s_in, s_out, s_again, faults>>

\* one step of main()
Step ==
  \/ Validate
  \/ Load
  \/ Match
  \/ Report
  \/ Write
  \/ Overwrite
  \/ ReportWrite

Next == Invoke \/ Step

Spec == Init /\ [][Next]_vars

\* main() is straight-line code: a started run keeps taking steps.  The
\* order of the steps does not depend on how long the files are: the
\* flavors files here are the short ones and one of two lines
FairInit ==
  InitWith(ShortTexts \cup { <<"a", "n", "d", "y", "LF", " ", "LF">> })

FairSpec == FairInit /\ [][Next]_vars /\ WF_vars(Step)

\* ------------------------------------------- normalize_text on its own
PureInit ==
  /\ s_in \in SeqsUpTo(PureChars, MaxStr)
  /\ s_out = <<>>
  /\ s_again = <<>>
  /\ faults = 0
  /\ pc = "Fn0"
  /\ fs = [p \in Paths |-> NoFile]
  /\ fs0 = fs
  /\ reported = <<>>
  /\ args = [inplace |-> FALSE, no_backup |-> FALSE]
  /\ artists_lines = <<>>
  /\ flavors_lines = <<>>
  /\ removals_idx = <<>>
  /\ removals_lines = <<>>
  /\ backup = None
  /\ out = <<>>
  /\ now = 0
  /\ runs = 0

\* s_out = normalize_text(s_in)
Normalize ==
  /\ pc = "Fn0"
  /\ s_out' = normalize_text(s_in)
  /\ pc' = "Fn1"
  /\ UNCHANGED <<s_in, s_again, fs, fs0, reported, args, artists_lines, flavors_lines,
                 removals_idx, removals_lines, backup, out, now, runs, faults>>

\* s_again = normalize_text(normalize_text(s_in))
NormalizeAgain ==
  /\ pc = "Fn1"
  /\ s_again' = normalize_text(s_out)
  /\ pc' = "Fn2"
  /\ UNCHANGED <<s_in, s_out, fs, fs0, reported, args, artists_lines, flavors_lines,
                 removals_idx, removals_lines, backup, out, now, runs, faults>>

PureNext == Normalize \/ NormalizeAgain

PureSpec == PureInit /\ [][PureNext]_vars

\* -------------------------------------------------------------- properties
Started == pc \notin {"Idle", "Fn0", "Fn1", "Fn2"}
LastOut == out[Len(out)]
\* the run stopped on an exception of a write_text
WriteFailed == pc = "Error" /\ out # <<>> /\ LastOut.k = "exception"

\* C1: a run without --inplace leaves the file system as it was when the run
\* started: neither input file is changed and no file is created.
C1_DryRunChangesNothing ==
  (Started /\ ~args.inplace) => fs = fs0

C1_Witness ==
  /\ pc = "Stop"
  /\ ~args.inplace
  /\ removals_idx # <<>>
  /\ fs[FlavorsPath].text # serialize(flavors_lines)
  /\ fs = fs0

\* C2: after a completed run with --inplace and without --no-backup, the
\* backup file holds the text the flavors file had before the run.
C2_BackupEqualsOriginal ==
  (pc = "Done" /\ backup # None) =>
     /\ fs[backup].exists
     /\ fs[backup].text = fs0[FlavorsPath].text

\* C3: the backup is written, and written in full, before the flavors file
\* is overwritten; a failed backup write ends the run with the flavors file
\* as it was before the run.
C3_BackupBeforeOverwrite ==
  (Started /\ args.inplace /\ ~args.no_backup) =>
     /\ (pc \in {"Overwrite", "ReportWrite", "Done"}
           \/ fs[FlavorsPath] # fs0[FlavorsPath]) =>
          /\ backup # None
          /\ fs[backup] = File(serialize(flavors_lines))
     /\ (WriteFailed /\ backup = None) => fs[FlavorsPath] = fs0[FlavorsPath]

C3_Witness ==
  /\ WriteFailed
  /\ args.inplace /\ ~args.no_backup
  /\ backup = None
  /\ removals_idx # <<>>
  /\ \E p \in BackupPaths :
       /\ fs[p].exists /\ fs[p] # fs0[p]
       /\ fs[p].text # <<>> /\ fs[p].text # serialize(flavors_lines)
  /\ fs[FlavorsPath] = fs0[FlavorsPath]

\* C4: after an apply run the lines of the rewritten flavors file are the
\* loaded lines with the flagged indexes deleted: each unflagged line, blank
\* ones too, is there unchanged and in its place among the kept lines, and
\* nothing else is.
Flagged == Range(removals_idx)
KeptBefore(i) == Cardinality({j \in 0..i : j \notin Flagged})

C4_OutputIsInputMinusFlagged ==
  pc \in {"ReportWrite", "Done"} =>
     LET new == load_nonempty_lines(fs[FlavorsPath])
         n == Len(flavors_lines)
     IN  /\ Len(new) = n - Cardinality(Flagged)
         /\ \A i \in 0..(n - 1) :
              i \notin Flagged => new[KeptBefore(i)] = flavors_lines[i + 1]

C4_Witness ==
  /\ pc = "Done"
  /\ Len(flavors_lines) = 2
  /\ removals_idx = <<0>>
  /\ strip(flavors_lines[2]) = <<>>
  /\ load_nonempty_lines(fs[FlavorsPath]) = <<flavors_lines[2]>>

\* C5: a flavor line is flagged exactly when it is not blank and some artist
\* string na (normalized, not empty, of a non-blank artist line) is a
\* substring of the normalized line nf, has more than 3 characters other
\* than spaces, and the word "and" is one of the words of nf.
Words(nf) == SplitLF[[i \in 1..Len(nf) |-> IF nf[i] = " " THEN "LF" ELSE nf[i]],
                     <<>>]
HasWordAnd(nf) == AND \in Range(Words(nf))

C5_FlaggedIffWordAnd ==
  pc \in {"Report", "Write", "Overwrite", "ReportWrite", "Stop", "Done"} =>
     \A i \in 0..(Len(flavors_lines) - 1) :
        LET flavor == flavors_lines[i + 1]
            nf == normalize_text(strip(flavor))
        IN  i \in Flagged <=>
              /\ strip(flavor) # <<>>
              /\ \E k \in 1..Len(artists_lines) :
                   LET na == normalize_text(strip(artists_lines[k]))
                   IN  /\ strip(artists_lines[k]) # <<>>
                       /\ na # <<>>
                       /\ IsSubstring(na, nf)
                       /\ Len(RemoveSpaces(na)) > 3
                       /\ HasWordAnd(nf)

\* C6: after a completed apply run, the tool run again with the same artists
\* file on the rewritten flavors file finds nothing to remove, and what a
\* second apply would write is the text the flavors file already holds.
C6_ApplyIsFixedPoint ==
  pc = "Done" =>
     LET fl == load_nonempty_lines(fs[FlavorsPath])
         r == find_removals(fl, load_nonempty_lines(fs[ArtistsPath]))
     IN  /\ r.idx = <<>>
         /\ serialize(kept_lines(fl, r.idx)) = fs[FlavorsPath].text

C6_Witness ==
  /\ pc = "Done"
  /\ removals_idx # <<>>
  /\ Len(flavors_lines) > Len(removals_idx)
  /\ fs[FlavorsPath] # fs0[FlavorsPath]

\* C7: every completed apply run with backup makes a backup file of its own
\* and leaves the backups of the earlier runs as they were: after n such
\* runs there are n backup files.
C7_EveryRunNewBackup ==
  (pc = "Done" /\ backup # None) =>
     /\ Cardinality(Range(reported)) = Len(reported)
     /\ \A i \in 1..(Len(reported) - 1) : fs[reported[i]] = fs0[reported[i]]

\* C8: when the artists path or the flavors path does not exist, the run
\* ends in SystemExit with the message for the first missing path, nothing
\* is loaded, matched or written, and the file system stays as it was.
C8_MissingInputFailsFast ==
  (Started /\ (~fs0[ArtistsPath].exists \/ ~fs0[FlavorsPath].exists)) =>
     /\ pc \in {"Validate", "Error"}
     /\ fs = fs0
     /\ artists_lines = <<>> /\ flavors_lines = <<>>
     /\ removals_idx = <<>> /\ backup = None
     /\ pc = "Validate" => out = <<>>
     /\ pc = "Error" =>
          out = <<[k |-> "SystemExit",
                   msg |-> IF ~fs0[ArtistsPath].exists
                           THEN "Artists file not found"
                           ELSE "Flavors file not found"]>>

C8_Witness ==
  /\ pc = "Error"
  /\ args.inplace
  /\ fs0[ArtistsPath].exists /\ fs0[ArtistsPath].text # <<>>
  /\ ~fs0[FlavorsPath].exists

\* C9: normalize_text(normalize_text(s)) = normalize_text(s), and the result
\* holds only lowercase ASCII letters, digits and single spaces between
\* them, none at either end.
C9_NormalizeIdempotent ==
  /\ pc = "Fn2" => s_again = s_out
  /\ pc \in {"Fn1", "Fn2"} =>
       /\ Range(s_out) \subseteq Lower \cup Digit \cup {" "}
       /\ s_out # <<>> => s_out[1] # " " /\ Last(s_out) # " "
       /\ \A i \in 1..(Len(s_out) - 1) : ~(s_out[i] = " " /\ s_out[i + 1] = " ")

C9_Witness ==
  /\ pc = "Fn2"
  /\ s_out # s_in
  /\ " " \in Range(s_out)
  /\ "A_ACUTE" \in Range(s_in)
  /\ "-" \in Range(s_in)

\* C10: a run goes Validate, Load, Match, Report and then Stop (dry run) or
\* Write, Overwrite, ReportWrite, Done (apply), leaving this line only to end
\* in Error; the file system changes only in the write steps of an apply
\* run, the flavors file only after the load, the match and the summary; no
\* step is taken twice in a run, and every run ends.
Successors(p) ==
  CASE p \in Terminal \cup {"Idle"} -> {"Validate"}
    [] p = "Validate" -> {"Load", "Error"}
    [] p = "Load" -> {"Match", "Error"}
    [] p = "Match" -> {"Report"}
    [] p = "Report" -> IF args.inplace THEN {"Write"} ELSE {"Stop"}
    [] p = "Write" -> {"Overwrite", "Error"}
    [] p = "Overwrite" -> {"ReportWrite", "Error"}
    [] p = "ReportWrite" -> {"Done"}
    [] OTHER -> {}

SummaryPrinted == \E i \in 1..Len(out) : out[i].k = "summary"

InOrder ==
  /\ pc' \in Successors(pc)
  /\ fs' # fs => args.inplace /\ pc \in {"Write", "Overwrite"}
  /\ fs'[FlavorsPath] # fs[FlavorsPath] =>
       /\ pc = "Overwrite"
       /\ flavors_lines = load_nonempty_lines(fs0[FlavorsPath])
       /\ artists_lines = load_nonempty_lines(fs0[ArtistsPath])
       /\ removals_idx = find_removals(flavors_lines, artists_lines).idx
       /\ SummaryPrinted

C10_SinglePass ==
  /\ [][InOrder]_vars
  /\ (pc = "Validate") ~> (pc \in Terminal)

C10_Witness ==
  /\ pc = "Done"
  /\ runs = 2
  /\ removals_idx # <<>>
  /\ fs[FlavorsPath] # fs0[FlavorsPath]

====
